---- MODULE Spec2Model ----
(***************************************************************************)
(* Model of src/src/rl.py (class RL_AC): the return estimator RL_Solve,    *)
(* the rollout seeder create_TO_init, and the trainer loop                 *)
(* learn_and_update / update / update_target.                              *)
(***************************************************************************)
EXTENDS Integers, Sequences, FiniteSets, TLC

(* ------------------------------ bounds --------------------------------- *)
MaxT == 3
MaxN == 2
NbState == 2
NbAction == 1
NSTEPS == 2
MaxLoops == 2
MaxEpisodes == 2
MaxCalls == 2
NParams == 2
TauDen == 2

(* Value an np.empty cell holds before the code writes it. *)
Garbage == 0 - 77

(* Rewards the environment may return (env.step / env.reward). *)
RewardVals == {1, 2, 3, 10}

ZeroVec == [j \in 1..NbState |-> 0]
GarbageVec == [j \in 1..NbState |-> Garbage]
(* States the environment may return (env.step). *)
StateVals == {ZeroVec, [j \in 1..NbState |-> j]}

(* ------------------------------ helpers -------------------------------- *)
Min(a, b) == IF a <= b THEN a ELSE b

RECURSIVE Pow2(_)
Pow2(k) == IF k = 0 THEN 1 ELSE 2 * Pow2(k - 1)

RECURSIVE BitLen(_)
BitLen(x) == IF x = 0 THEN 0 ELSE 1 + BitLen(x \div 2)

Abs(x) == IF x < 0 THEN 0 - x ELSE x

(* np.float32 of an integer-valued double: 24 significant bits, round to   *)
(* nearest, ties to even.                                                  *)
Float32(x) ==
    LET a == Abs(x)
        k == IF BitLen(a) > 24 THEN BitLen(a) - 24 ELSE 0
        step == Pow2(k)
        q == a \div step
        r == a % step
        up == (2 * r > step) \/ (2 * r = step /\ q % 2 = 1)
        m == (IF up THEN q + 1 ELSE q) * step
    IN IF x < 0 THEN 0 - m ELSE m

(* numpy row index: a negative index counts from the end; -1 is "raise".   *)
PyIndex(k, len) ==
    IF k >= 0 /\ k < len THEN k
    ELSE IF k < 0 /\ k + len >= 0 THEN k + len
    ELSE 0 - 1

(* Python sum(arr[lo:hi]) on a 0-based array held as a 1-based sequence;   *)
(* the slice clips hi to the array length.                                 *)
RECURSIVE SumSlice(_, _, _)
SumSlice(arr, lo, hi) ==
    IF lo >= Min(hi, Len(arr)) THEN 0
    ELSE arr[lo + 1] + SumSlice(arr, lo + 1, hi)

(* ============================== state ================================= *)
VARIABLES
    MC,                 \* conf.MC
    nsteps_TD_N,        \* conf.nsteps_TD_N
    UPDATE_RATE,        \* conf.UPDATE_RATE, as the numerator of tau over TauDen
    UPDATE_LOOPS,       \* conf.UPDATE_LOOPS, indexed by episode
    LR_SCHEDULE,        \* conf.LR_SCHEDULE
    NSTEPS_SH,          \* self.NSTEPS_SH
    state_arr,          \* self.state_arr: <<>> is None, else rows 0..T as 1..T+1
    ee_pos_arr,         \* self.ee_pos_arr
    control_arr         \* self.control_arr

confVars == <<MC, nsteps_TD_N, UPDATE_RATE, UPDATE_LOOPS, LR_SCHEDULE>>
selfVars == <<NSTEPS_SH, state_arr, ee_pos_arr, control_arr>>

VARIABLES
    rwrd_arr,
    state_next_rollout_arr,
    partial_reward_to_go_arr,
    total_reward_to_go_arr,
    term_arr,
    done_arr,
    ep_return,
    step_counter,       \* loop variable of the simulation loop
    ret_i,              \* loop variable i of the return loop
    ctrl_used,          \* per transition: <<index expression, row applied>>
    env_calls,          \* log of environment calls made by RL_Solve
    spc                 \* position in RL_Solve

solveVars == <<rwrd_arr, state_next_rollout_arr, partial_reward_to_go_arr,
               total_reward_to_go_arr, term_arr, done_arr, ep_return,
               step_counter, ret_i, ctrl_used, env_calls, spc>>

(* create_TO_init *)
VARIABLES
    ep,                 \* argument ep
    ICS,                \* argument ICS
    init_rand_state,    \* self.init_rand_state
    init_TO_states,
    init_TO_controls,
    success_init_flag,
    seed_i,             \* loop variable i
    policy_evals,       \* number of NN.eval calls made
    sim_calls,          \* number of env.simulate calls made
    seed_ret,           \* <<>> before the return, else the returned tuple
    qpc                 \* position in create_TO_init

seedVars == <<ep, ICS, init_rand_state, init_TO_states, init_TO_controls,
              success_init_flag, seed_i, policy_evals, sim_calls, seed_ret, qpc>>

(* setup_model, update, update_target, learn_and_update *)
VARIABLES
    actor_model,        \* parameters of self.actor_model
    critic_model,       \* parameters of self.critic_model
    target_critic,      \* parameters of self.target_critic
    target_at_setup,    \* target_critic as setup_model left it
    sched_steps,        \* steps taken by the two LR schedulers
    update_step_counter,
    c_in,               \* update_step_counter as passed to the current call
    ep_arg,             \* argument ep of the current call (1-based here)
    loop_i,             \* loop variable i
    times_sample,
    times_update,
    times_update_target,
    batch,              \* the locals unpacked from buffer.sample()
    sampled,            \* the tuple buffer.sample() returned
    critic_grad_args,   \* arguments of the last NN.compute_critic_grad call
    actor_grad_args,    \* arguments of the last NN.compute_actor_grad call
    call_log,           \* sample / update / target events of the current call
    n_samples,          \* buffer.sample() calls made so far
    n_target_updates,   \* update_target calls made so far
    n_calls,            \* learn_and_update calls started
    learn_ret,          \* <<>> or <<returned counter>> of the last call
    lpc                 \* position in learn_and_update

learnVars == <<actor_model, critic_model, target_critic, target_at_setup,
               sched_steps, update_step_counter, c_in, ep_arg, loop_i,
               times_sample, times_update, times_update_target, batch, sampled,
               critic_grad_args, actor_grad_args, call_log, n_samples,
               n_target_updates, n_calls, learn_ret, lpc>>

vars == <<confVars, selfVars, solveVars, seedVars, learnVars>>

(* ============================ RL_Solve ================================= *)
(* self.state_arr as create_TO_init leaves it for horizon k >= 1.          *)
FreshStateArr(k, s0) == [j \in 1..(k + 1) |-> IF j = 1 THEN s0 ELSE GarbageVec]

(* self.state_arr as a previous, completed episode of horizon k left it.   *)
StaleStateArrs(k) == [1..(k + 1) -> StateVals]

(* The controls handed to RL_Solve: one row per transition.                *)
TO_controls(T) == [j \in 1..T |-> <<j>>]

(* lines 162-170 at the entry of RL_Solve, before the arrays exist.        *)
SolveEntry ==
    /\ rwrd_arr = <<>>
    /\ state_next_rollout_arr = <<>>
    /\ partial_reward_to_go_arr = <<>>
    /\ total_reward_to_go_arr = <<>>
    /\ term_arr = <<>>
    /\ done_arr = <<>>
    /\ ep_return = 0
    /\ step_counter = 0
    /\ ret_i = 0
    /\ ctrl_used = <<>>
    /\ env_calls = <<>>
    /\ spc = "start"

(* State at the call of RL_Solve.  For T >= 1 create_TO_init has just      *)
(* allocated state_arr; for T = 0 create_TO_init returned at its guard and *)
(* state_arr is still None (first episode) or the previous episode's.      *)
SolveInit ==
    /\ NSTEPS_SH \in 0..MaxT
    /\ MC \in BOOLEAN
    /\ nsteps_TD_N \in 1..MaxN
    /\ IF NSTEPS_SH = 0
       THEN state_arr \in {<<>>} \cup StaleStateArrs(1)
       ELSE state_arr \in {FreshStateArr(NSTEPS_SH, s0) : s0 \in StateVals}
    /\ ee_pos_arr = IF state_arr = <<>> THEN <<>>
                    ELSE [j \in 1..Len(state_arr) |-> [ee |-> state_arr[j]]]
    /\ control_arr = <<>>
    /\ SolveEntry

(* The terminal flag put on the first index instead of the last.           *)
TermArrInit_first(T) == [j \in 1..(T + 1) |-> IF j = 1 THEN 1 ELSE 0]

(* lines 167-168: term_arr = zeros(T+1); term_arr[-1] = 1.                 *)
TermArrInit(T) == [j \in 1..(T + 1) |-> IF j = T + 1 THEN 1 ELSE 0]

(* lines 162-172: allocations.                                             *)
SolveAlloc ==
    /\ spc = "start"
    /\ rwrd_arr' = [j \in 1..(NSTEPS_SH + 1) |-> Garbage]
    /\ state_next_rollout_arr' = [j \in 1..(NSTEPS_SH + 1) |-> ZeroVec]
    /\ partial_reward_to_go_arr' = [j \in 1..(NSTEPS_SH + 1) |-> Garbage]
    /\ total_reward_to_go_arr' = [j \in 1..(NSTEPS_SH + 1) |-> Garbage]
    /\ term_arr' = TermArrInit(NSTEPS_SH)
    /\ done_arr' = [j \in 1..(NSTEPS_SH + 1) |-> 0]
    /\ ep_return' = 0
    /\ control_arr' = TO_controls(NSTEPS_SH)
    /\ spc' = "sim"
    /\ UNCHANGED <<seedVars, learnVars>>
    /\ UNCHANGED <<confVars, NSTEPS_SH, state_arr, ee_pos_arr,
                   step_counter, ret_i, ctrl_used, env_calls>>

(* The control index without the lag at the last transition.              *)
ControlIndexExpr_nolag(sc, T) == sc

(* lines 176-180: index expression of the control row of iteration sc.     *)
ControlIndexExpr(sc, T) == IF sc = T - 1 THEN sc - 1 ELSE sc

(* lines 174-183: one iteration of the simulation loop.                    *)
SolveStep ==
    /\ spc = "sim"
    /\ step_counter < NSTEPS_SH
    /\ LET expr == ControlIndexExpr(step_counter, NSTEPS_SH)
           row == PyIndex(expr, Len(control_arr))
       IN \E ns \in StateVals, rw \in RewardVals :
               /\ state_arr' = [state_arr EXCEPT ![step_counter + 2] = ns]
               /\ rwrd_arr' = [rwrd_arr EXCEPT ![step_counter + 1] = rw]
               /\ ee_pos_arr' = [ee_pos_arr EXCEPT ![step_counter + 2] = [ee |-> ns]]
               /\ ctrl_used' = Append(ctrl_used, <<expr, row>>)
               /\ env_calls' = Append(env_calls,
                      [op |-> "step", at |-> step_counter, ctrl |-> row,
                       reward |-> rw])
    /\ step_counter' = step_counter + 1
    /\ UNCHANGED <<seedVars, learnVars>>
    /\ UNCHANGED <<confVars, NSTEPS_SH, control_arr, state_next_rollout_arr,
                   partial_reward_to_go_arr, total_reward_to_go_arr,
                   term_arr, done_arr, ep_return, ret_i, spc>>

(* lines 184-186: terminal reward of state_arr[-1] and the episode return; *)
(* subscripting None raises TypeError.                                     *)
SolveTerminal ==
    /\ spc = "sim"
    /\ step_counter = NSTEPS_SH
    /\ IF state_arr = <<>>
       THEN /\ spc' = "raised"
            /\ UNCHANGED <<rwrd_arr, ep_return, env_calls>>
       ELSE \E rw \in RewardVals :
            /\ rwrd_arr' = [rwrd_arr EXCEPT ![Len(rwrd_arr)] = rw]
            /\ ep_return' = SumSlice(rwrd_arr', 0, Len(rwrd_arr))
            /\ env_calls' = Append(env_calls,
                   [op |-> "reward", at |-> Len(state_arr) - 1, ctrl |-> 0 - 1,
                    reward |-> rw])
            /\ spc' = "ret"
    /\ UNCHANGED <<seedVars, learnVars>>
    /\ UNCHANGED <<confVars, selfVars,
                   state_next_rollout_arr, partial_reward_to_go_arr,
                   total_reward_to_go_arr, term_arr, done_arr,
                   step_counter, ret_i, ctrl_used>>

(* lines 191-195: the final lookahead step of index i.                     *)
final_lookahead_step(i) ==
    IF MC THEN NSTEPS_SH ELSE Min(i + nsteps_TD_N, NSTEPS_SH)

(* lines 191-197: whether done_arr[i] is set.                              *)
DoneSet(i) == MC \/ final_lookahead_step(i) = NSTEPS_SH

(* The bootstrap state taken at the lookahead step itself.                 *)
BootstrapRow_same(fl) == fl

(* line 199: the row of state_arr copied as the bootstrap state.           *)
BootstrapRow(fl) == fl + 1

(* The slice end one short: the reward at the lookahead step is dropped.   *)
PartialSliceEnd_short(fl) == fl

(* line 202: the slice end of the partial return.                          *)
PartialSliceEnd(fl) == fl + 1

(* lines 189-203: one iteration of the return loop.                        *)
SolveReturn ==
    /\ spc = "ret"
    /\ ret_i < NSTEPS_SH + 1
    /\ LET i == ret_i
           fl == final_lookahead_step(i)
       IN /\ done_arr' = IF DoneSet(i)
                         THEN [done_arr EXCEPT ![i + 1] = 1]
                         ELSE done_arr
          /\ state_next_rollout_arr' =
                 IF ~DoneSet(i)
                 THEN [state_next_rollout_arr EXCEPT
                          ![i + 1] = state_arr[BootstrapRow(fl) + 1]]
                 ELSE state_next_rollout_arr
          /\ partial_reward_to_go_arr' =
                 [partial_reward_to_go_arr EXCEPT
                     ![i + 1] = Float32(SumSlice(rwrd_arr, i, PartialSliceEnd(fl)))]
          /\ total_reward_to_go_arr' =
                 [total_reward_to_go_arr EXCEPT
                     ![i + 1] = Float32(SumSlice(rwrd_arr, i, NSTEPS_SH + 1))]
    /\ ret_i' = ret_i + 1
    /\ UNCHANGED <<seedVars, learnVars>>
    /\ UNCHANGED <<confVars, selfVars, rwrd_arr, term_arr,
                   ep_return, step_counter, ctrl_used, env_calls, spc>>

(* line 205: return.                                                       *)
SolveFinish ==
    /\ spc = "ret"
    /\ ret_i = NSTEPS_SH + 1
    /\ spc' = "done"
    /\ UNCHANGED <<seedVars, learnVars>>
    /\ UNCHANGED <<confVars, selfVars, rwrd_arr,
                   state_next_rollout_arr, partial_reward_to_go_arr,
                   total_reward_to_go_arr, term_arr, done_arr,
                   ep_return, step_counter, ret_i, ctrl_used, env_calls>>

SolveNext == SolveAlloc \/ SolveStep \/ SolveTerminal \/ SolveReturn \/ SolveFinish

(* ========================= create_TO_init ============================== *)
(* Encoding of the IEEE special values a simulated state may hold.         *)
NaN == 0 - 1001
PosInf == 1002
NegInf == 0 - 1002

(* conf.dt, in the integer time unit of the model.                         *)
dt == 2

isnan(x) == x = NaN
isfinite(x) == x \notin {NaN, PosInf, NegInf}

(* Initial conditions: the last component is the initial time.             *)
ICSVals == {[j \in 1..NbState |-> IF j = NbState THEN t ELSE 1] : t \in 0..(NSTEPS * dt)}

(* States env.simulate may return: one component finite or special.        *)
SimStates == {[j \in 1..NbState |-> IF j = p THEN f ELSE 0] :
                 p \in 1..NbState, f \in {1, NaN, PosInf, NegInf}}

ZeroCtl == [j \in 1..NbAction |-> 0]
GarbageCtl == [j \in 1..NbAction |-> Garbage]
(* Controls the policy (NN.eval) may return.                               *)
PolicyVals == {[j \in 1..NbAction |-> 1], [j \in 1..NbAction |-> 0 - 1]}

(* lines 53-57: the fields as __init__ leaves them.                        *)
SelfConstructed ==
    /\ NSTEPS_SH = 0
    /\ state_arr = <<>>
    /\ ee_pos_arr = <<>>
    /\ control_arr = <<>>

SeedEntry ==
    /\ init_rand_state = <<>>
    /\ init_TO_states = <<>>
    /\ init_TO_controls = <<>>
    /\ success_init_flag = 1
    /\ seed_i = 0
    /\ policy_evals = 0
    /\ sim_calls = 0
    /\ seed_ret = <<>>
    /\ qpc = "start"

SeedInit ==
    /\ SelfConstructed
    /\ ep \in 0..1
    /\ ICS \in ICSVals
    /\ SeedEntry

(* line 222: NSTEPS - int(t / dt); int() truncates (t >= 0 here).          *)
Horizon(ics) == NSTEPS - (ics[Len(ics)] \div dt)

(* line 252: np.isnan(row).any().                                          *)
DivergenceCheck(row) == \E j \in 1..Len(row) : isnan(row[j])

(* lines 220-243: horizon guard and allocations.                           *)
SeedBegin ==
    /\ qpc = "start"
    /\ init_rand_state' = ICS
    /\ NSTEPS_SH' = Horizon(ICS)
    /\ IF NSTEPS_SH' = 0
       THEN /\ seed_ret' = [outputs |-> FALSE, flag |-> 0]
            /\ qpc' = "done"
            /\ UNCHANGED <<state_arr, ee_pos_arr, control_arr, init_TO_states,
                           init_TO_controls, success_init_flag>>
       ELSE /\ control_arr' = [j \in 1..NSTEPS_SH' |-> GarbageCtl]
            /\ state_arr' = FreshStateArr(NSTEPS_SH', ICS)
            /\ ee_pos_arr' = [j \in 1..(NSTEPS_SH' + 1) |->
                                 [ee |-> IF j = 1 THEN ICS ELSE GarbageVec]]
            /\ init_TO_controls' = [j \in 1..NSTEPS_SH' |-> ZeroCtl]
            /\ init_TO_states' = [j \in 1..(NSTEPS_SH' + 1) |->
                                     IF j = 1 THEN ICS ELSE ZeroVec]
            /\ success_init_flag' = 1
            /\ seed_ret' = seed_ret
            /\ qpc' = "loop"
    /\ UNCHANGED <<solveVars, learnVars>>
    /\ UNCHANGED <<confVars, ep, ICS, seed_i, policy_evals, sim_calls>>

(* lines 244-254: one iteration of the rollout loop.                       *)
SeedStep ==
    /\ qpc = "loop"
    /\ seed_i < NSTEPS_SH
    /\ \E u \in (IF ep = 0 THEN {ZeroCtl} ELSE PolicyVals), ns \in SimStates :
         /\ init_TO_controls' = [init_TO_controls EXCEPT ![seed_i + 1] = u]
         /\ init_TO_states' = [init_TO_states EXCEPT ![seed_i + 2] = ns]
         /\ IF DivergenceCheck(ns)
            THEN /\ success_init_flag' = 0
                 /\ seed_ret' = [outputs |-> FALSE, flag |-> 0]
                 /\ qpc' = "done"
                 /\ seed_i' = seed_i
            ELSE /\ seed_i' = seed_i + 1
                 /\ UNCHANGED <<success_init_flag, seed_ret, qpc>>
    /\ policy_evals' = IF ep = 0 THEN policy_evals ELSE policy_evals + 1
    /\ sim_calls' = sim_calls + 1
    /\ UNCHANGED <<solveVars, learnVars>>
    /\ UNCHANGED <<confVars, selfVars, ep, ICS, init_rand_state>>

(* line 256: return of the filled trajectories.                            *)
SeedFinish ==
    /\ qpc = "loop"
    /\ seed_i = NSTEPS_SH
    /\ seed_ret' = [outputs |-> TRUE, flag |-> success_init_flag]
    /\ qpc' = "done"
    /\ UNCHANGED <<solveVars, learnVars>>
    /\ UNCHANGED <<confVars, selfVars, ep, ICS, init_rand_state, init_TO_states,
                   init_TO_controls, success_init_flag, seed_i, policy_evals,
                   sim_calls>>

SeedNext == SeedBegin \/ SeedStep \/ SeedFinish

(* ============ setup_model / update / update_target / learn ============= *)
RECURSIVE Pow(_, _)
Pow(b, k) == IF k = 0 THEN 1 ELSE b * Pow(b, k - 1)

(* Parameters are fixed-point numbers with denominator Scale, so that every *)
(* blend by tau = UPDATE_RATE / TauDen the model can perform is exact.     *)
Scale == Pow(TauDen, MaxCalls * MaxLoops)

(* Parameter vectors a critic can hold after construction or a gradient    *)
(* step, and values of the (single) actor parameter.                       *)
CriticVals == {[j \in 1..NParams |-> Scale * j], [j \in 1..NParams |-> 0 - Scale]}
ActorVals == {0, 1}

(* lines 90-99: the target critic is loaded from a checkpoint when         *)
(* recovering, else copied from the critic.                                *)
SetupTarget(critic, loaded, recover) == IF recover THEN loaded ELSE critic

LearnEntry ==
    /\ sched_steps = 0
    /\ update_step_counter = 0
    /\ c_in = 0
    /\ ep_arg = 1
    /\ loop_i = 0
    /\ times_sample = <<>>
    /\ times_update = <<>>
    /\ times_update_target = <<>>
    /\ batch = <<>>
    /\ sampled = <<>>
    /\ critic_grad_args = <<>>
    /\ actor_grad_args = <<>>
    /\ call_log = <<>>
    /\ n_samples = 0
    /\ n_target_updates = 0
    /\ n_calls = 0
    /\ learn_ret = <<>>
    /\ lpc = "idle"

(* conf.UPDATE_LOOPS: every loop count 0..MaxLoops occurs, at every        *)
(* episode index, in some configuration.                                   *)
LoopConfigs == {[e \in 1..MaxEpisodes |-> (e + r) % (MaxLoops + 1)] : r \in 0..MaxLoops}

(* State after __init__ and setup_model.                                   *)
LearnInit ==
    /\ MC \in BOOLEAN
    /\ UPDATE_RATE \in 0..TauDen
    /\ UPDATE_LOOPS \in LoopConfigs
    /\ LR_SCHEDULE \in BOOLEAN
    /\ actor_model \in ActorVals
    /\ critic_model \in CriticVals
    /\ \E loaded \in CriticVals, recover \in BOOLEAN :
           target_critic = SetupTarget(critic_model, loaded, recover)
    /\ target_at_setup = target_critic
    /\ LearnEntry

(* The tuple buffer.sample() returns on its k-th call, each element tagged *)
(* with the field it carries.                                              *)
ReplaySample(k) ==
    << [field |-> "states", k |-> k],
       [field |-> "bootstrapStates", k |-> k],
       [field |-> "partialReturns", k |-> k],
       [field |-> "doneFlags", k |-> k],
       [field |-> "terminalFlags", k |-> k],
       [field |-> "importanceWeights", k |-> k],
       [field |-> "sampleIndices", k |-> k] >>

(* The done and terminal flags unpacked in exchanged order.                *)
Unpack_flags_swapped(tup) ==
    [state_batch |-> tup[1],
     partial_reward_to_go_batch |-> tup[2],
     state_next_rollout_batch |-> tup[3],
     d_batch |-> tup[5],
     term_batch |-> tup[4],
     weights_batch |-> tup[6],
     batch_idxes |-> tup[7]]

(* line 136: the tuple unpacked into the locals of learn_and_update.       *)
Unpack(tup) ==
    [state_batch |-> tup[1],
     partial_reward_to_go_batch |-> tup[2],
     state_next_rollout_batch |-> tup[3],
     d_batch |-> tup[4],
     term_batch |-> tup[5],
     weights_batch |-> tup[6],
     batch_idxes |-> tup[7]]

(* lines 142 and 101: the positional arguments bound to update()'s         *)
(* parameters.                                                             *)
UpdateParams(b) ==
    [state_batch |-> b.state_batch,
     state_next_rollout_batch |-> b.state_next_rollout_batch,
     partial_reward_to_go_batch |-> b.partial_reward_to_go_batch,
     d_batch |-> b.d_batch,
     term_batch |-> b.term_batch,
     weights_batch |-> b.weights_batch]

(* line 106: positional arguments 3..7 of NN.compute_critic_grad.          *)
CriticGradArgs(p) ==
    [state_batch |-> p.state_batch,
     bootstrap_state_batch |-> p.state_next_rollout_batch,
     partial_return_batch |-> p.partial_reward_to_go_batch,
     done_batch |-> p.d_batch,
     importance_weights |-> p.weights_batch]

(* line 111: positional arguments 3..4 of NN.compute_actor_grad.           *)
ActorGradArgs(p) ==
    [state_batch |-> p.state_batch, terminal_batch |-> p.term_batch]

(* The blend with the two weights exchanged.                               *)
Blend_swapped(target_param, param) ==
    (target_param * UPDATE_RATE + param * (TauDen - UPDATE_RATE)) \div TauDen

(* line 125: param * tau + target_param * (1 - tau).                       *)
Blend(target_param, param) ==
    (param * UPDATE_RATE + target_param * (TauDen - UPDATE_RATE)) \div TauDen

(* lines 120-125: zip stops at the shorter sequence.                       *)
RECURSIVE update_target(_, _)
update_target(target_weights, weights) ==
    IF target_weights = <<>> \/ weights = <<>> THEN target_weights
    ELSE <<Blend(Head(target_weights), Head(weights))>>
         \o update_target(Tail(target_weights), Tail(weights))

(* The target critic updated in either mode.                               *)
TargetUpdateDue_always == TRUE

(* line 147: if not self.conf.MC.                                          *)
TargetUpdateDue == ~MC

(* lines 130-133: entry of learn_and_update.                               *)
LearnCall ==
    /\ lpc = "idle"
    /\ n_calls < MaxCalls
    /\ \E e \in 1..Len(UPDATE_LOOPS) :
         /\ ep_arg' = e
         /\ times_sample' = [j \in 1..UPDATE_LOOPS[e] |-> 0]
         /\ times_update' = [j \in 1..UPDATE_LOOPS[e] |-> 0]
         /\ times_update_target' = [j \in 1..UPDATE_LOOPS[e] |-> 0]
    /\ c_in' = update_step_counter
    /\ loop_i' = 0
    /\ call_log' = <<>>
    /\ n_calls' = n_calls + 1
    /\ learn_ret' = <<>>
    /\ lpc' = "loop"
    /\ UNCHANGED <<confVars, selfVars, solveVars, seedVars, actor_model,
                   critic_model, target_critic, target_at_setup, sched_steps,
                   update_step_counter, batch, sampled, critic_grad_args,
                   actor_grad_args, n_samples, n_target_updates>>

(* lines 135-138: buffer.sample().                                         *)
LearnSample ==
    /\ lpc = "loop"
    /\ loop_i < UPDATE_LOOPS[ep_arg]
    /\ sampled' = ReplaySample(n_samples + 1)
    /\ batch' = Unpack(sampled')
    /\ n_samples' = n_samples + 1
    /\ call_log' = Append(call_log, "sample")
    /\ lpc' = "update"
    /\ UNCHANGED <<confVars, selfVars, solveVars, seedVars, actor_model,
                   critic_model, target_critic, target_at_setup, sched_steps,
                   update_step_counter, c_in, ep_arg, loop_i, times_sample,
                   times_update, times_update_target, critic_grad_args,
                   actor_grad_args, n_target_updates, n_calls, learn_ret>>

(* lines 141-144 and 101-118: self.update(...): one optimizer step on the  *)
(* critic parameters, one on the actor parameters, scheduler steps.        *)
LearnUpdate ==
    /\ lpc = "update"
    /\ critic_grad_args' = CriticGradArgs(UpdateParams(batch))
    /\ actor_grad_args' = ActorGradArgs(UpdateParams(batch))
    /\ critic_model' \in CriticVals
    /\ actor_model' \in ActorVals
    /\ sched_steps' = IF LR_SCHEDULE THEN sched_steps + 1 ELSE sched_steps
    /\ call_log' = Append(call_log, "update")
    /\ lpc' = "target"
    /\ UNCHANGED <<confVars, selfVars, solveVars, seedVars, target_critic,
                   target_at_setup, update_step_counter, c_in, ep_arg, loop_i,
                   times_sample, times_update, times_update_target, batch,
                   sampled, n_samples, n_target_updates, n_calls, learn_ret>>

(* lines 147-153 when the target critic is updated.                        *)
LearnTargetUpdate ==
    /\ lpc = "target"
    /\ TargetUpdateDue
    /\ target_critic' = update_target(target_critic, critic_model)
    /\ n_target_updates' = n_target_updates + 1
    /\ call_log' = Append(call_log, "target")
    /\ update_step_counter' = update_step_counter + 1
    /\ loop_i' = loop_i + 1
    /\ lpc' = "loop"
    /\ UNCHANGED <<confVars, selfVars, solveVars, seedVars, actor_model,
                   critic_model, target_at_setup, sched_steps, c_in, ep_arg,
                   times_sample, times_update, times_update_target, batch,
                   sampled, critic_grad_args, actor_grad_args, n_samples,
                   n_calls, learn_ret>>

(* lines 147-153 when the target update is skipped.                        *)
LearnTargetSkip ==
    /\ lpc = "target"
    /\ ~TargetUpdateDue
    /\ update_step_counter' = update_step_counter + 1
    /\ loop_i' = loop_i + 1
    /\ lpc' = "loop"
    /\ UNCHANGED <<confVars, selfVars, solveVars, seedVars, actor_model,
                   critic_model, target_critic, target_at_setup, sched_steps,
                   c_in, ep_arg, times_sample, times_update,
                   times_update_target, batch, sampled, critic_grad_args,
                   actor_grad_args, call_log, n_samples, n_target_updates,
                   n_calls, learn_ret>>

(* lines 155-157: np.max / np.min of a zero-size array raise ValueError.   *)
PrintRaises(times) == Len(times) = 0

(* lines 155-158: the diagnostics and the return.                          *)
LearnReturn ==
    /\ lpc = "loop"
    /\ loop_i = UPDATE_LOOPS[ep_arg]
    /\ IF PrintRaises(times_sample)
       THEN /\ lpc' = "raised"
            /\ learn_ret' = learn_ret
       ELSE /\ lpc' = "idle"
            /\ learn_ret' = <<update_step_counter>>
    /\ UNCHANGED <<confVars, selfVars, solveVars, seedVars, actor_model,
                   critic_model, target_critic, target_at_setup, sched_steps,
                   update_step_counter, c_in, ep_arg, loop_i, times_sample,
                   times_update, times_update_target, batch, sampled,
                   critic_grad_args, actor_grad_args, call_log, n_samples,
                   n_target_updates, n_calls>>

LearnNext == LearnCall \/ LearnSample \/ LearnUpdate \/ LearnTargetUpdate
             \/ LearnTargetSkip \/ LearnReturn

(* ========================== specifications ============================= *)
ConfIdle ==
    /\ MC = FALSE
    /\ nsteps_TD_N = 1
    /\ UPDATE_RATE = TauDen
    /\ UPDATE_LOOPS = [e \in 1..MaxEpisodes |-> 1]
    /\ LR_SCHEDULE = FALSE

ModelsUnset ==
    /\ actor_model = 0
    /\ critic_model = <<>>
    /\ target_critic = <<>>
    /\ target_at_setup = <<>>

SeedIdle == ep = 0 /\ ICS = <<>> /\ SeedEntry

(* RL_Solve, called after create_TO_init.                                  *)
InitSolve ==
    /\ SolveInit
    /\ UPDATE_RATE = TauDen
    /\ UPDATE_LOOPS = [e \in 1..MaxEpisodes |-> 1]
    /\ LR_SCHEDULE = FALSE
    /\ SeedIdle
    /\ ModelsUnset
    /\ LearnEntry

NextSolve == SolveNext

SpecSolve == InitSolve /\ [][NextSolve]_vars

(* create_TO_init, called on a constructed object.                         *)
InitSeed ==
    /\ ConfIdle
    /\ SeedInit
    /\ SolveEntry
    /\ ModelsUnset
    /\ LearnEntry

NextSeed == SeedNext

SpecSeed == InitSeed /\ [][NextSeed]_vars

(* learn_and_update, called repeatedly after setup_model.                  *)
InitLearn ==
    /\ LearnInit
    /\ nsteps_TD_N = 1
    /\ SelfConstructed
    /\ SolveEntry
    /\ SeedIdle

NextLearn == LearnNext

SpecLearn == InitLearn /\ [][NextLearn]_vars

(* ============================== claims ================================= *)
(* Sum of r[a..b] inclusive, r a 0-based array held as a 1-based sequence.  *)
SumRange(r, a, b) ==
    LET S[k \in (a - 1)..b] == IF k < a THEN 0 ELSE S[k - 1] + r[k + 1]
    IN S[b]

ExpectedLookahead(i) ==
    IF MC THEN NSTEPS_SH ELSE IF i + nsteps_TD_N <= NSTEPS_SH
                              THEN i + nsteps_TD_N ELSE NSTEPS_SH

(* C1: for T >= 1 and every computed index i, partial_return[i] is the sum *)
(* of r[i..finalLookahead] and total_return[i] the sum of r[i..T]; in      *)
(* Monte-Carlo mode, and in TD(n) mode when i + n >= T, the two are equal; *)
(* otherwise the partial return sums exactly n+1 rewards from i on.        *)
(* Rewards [1,2,3,10] give [16,15,13,10] (MC) and [3,5,13,10] (TD(1)).     *)
C1_Returns ==
    (NSTEPS_SH >= 1 /\ spc \in {"ret", "done"}) =>
      /\ \A i \in 0..(ret_i - 1) :
           /\ partial_reward_to_go_arr[i + 1]
                = SumRange(rwrd_arr, i, ExpectedLookahead(i))
           /\ total_reward_to_go_arr[i + 1] = SumRange(rwrd_arr, i, NSTEPS_SH)
           /\ (MC \/ i + nsteps_TD_N >= NSTEPS_SH)
                => partial_reward_to_go_arr[i + 1] = total_reward_to_go_arr[i + 1]
           /\ (~MC /\ i + nsteps_TD_N < NSTEPS_SH)
                => partial_reward_to_go_arr[i + 1]
                     = SumRange(rwrd_arr, i, i + nsteps_TD_N)
      /\ (spc = "done" /\ rwrd_arr = <<1, 2, 3, 10>> /\ MC)
           => partial_reward_to_go_arr = <<16, 15, 13, 10>>
      /\ (spc = "done" /\ rwrd_arr = <<1, 2, 3, 10>> /\ ~MC /\ nsteps_TD_N = 1)
           => partial_reward_to_go_arr = <<3, 5, 13, 10>>

C1_Witness ==
    /\ spc = "done"
    /\ ~MC
    /\ nsteps_TD_N = 1
    /\ rwrd_arr = <<1, 2, 3, 10>>
    /\ partial_reward_to_go_arr = <<3, 5, 13, 10>>
    /\ total_reward_to_go_arr = <<16, 15, 13, 10>>

(* C2: done[i] = 1 exactly when Monte-Carlo mode is on or i + n >= T, else *)
(* 0; terminal[i] = 1 exactly when i = T, at exactly one index, in either  *)
(* mode.                                                                   *)
C2_Flags ==
    (spc \in {"sim", "ret", "done"}) =>
      /\ \A i \in 0..(ret_i - 1) :
           done_arr[i + 1] = IF MC \/ i + nsteps_TD_N >= NSTEPS_SH THEN 1 ELSE 0
      /\ Len(term_arr) = NSTEPS_SH + 1
      /\ \A i \in 0..NSTEPS_SH :
           term_arr[i + 1] = IF i = NSTEPS_SH THEN 1 ELSE 0
      /\ Cardinality({i \in 0..NSTEPS_SH : term_arr[i + 1] = 1}) = 1

C2_Witness ==
    /\ spc = "done"
    /\ ~MC
    /\ nsteps_TD_N = 1
    /\ NSTEPS_SH = 3
    /\ done_arr = <<0, 0, 1, 1>>
    /\ term_arr = <<0, 0, 0, 1>>

(* C3: at the return, where done[i] = 0 the bootstrap state is the state   *)
(* at index min(i+n, T) + 1, an index within 0..T; where done[i] = 1 it is *)
(* the all-zero vector.                                                    *)
C3_Bootstrap ==
    (spc = "done") =>
      \A i \in 0..NSTEPS_SH :
        LET fl == IF i + nsteps_TD_N <= NSTEPS_SH THEN i + nsteps_TD_N
                  ELSE NSTEPS_SH
        IN /\ done_arr[i + 1] = 0 =>
                /\ fl + 1 \in 0..NSTEPS_SH
                /\ state_next_rollout_arr[i + 1] = state_arr[fl + 2]
           /\ done_arr[i + 1] = 1 => state_next_rollout_arr[i + 1] = ZeroVec

C3_Witness ==
    /\ spc = "done"
    /\ ~MC
    /\ NSTEPS_SH = 3
    /\ nsteps_TD_N = 1
    /\ done_arr[1] = 0
    /\ state_next_rollout_arr[1] # ZeroVec
    /\ state_next_rollout_arr[1] = state_arr[3]
    /\ state_arr[2] # state_arr[3]
    /\ state_next_rollout_arr[4] = ZeroVec

(* C4: with horizon T = 0, RL_Solve returns neutral outputs and a zero     *)
(* episode return, without calling the environment and without raising.    *)
C4_ZeroHorizon ==
    (NSTEPS_SH = 0) =>
      /\ spc # "raised"
      /\ env_calls = <<>>
      /\ ep_return = 0

(* C5: in create_TO_init, a simulated state holding NaN, +Inf or -Inf      *)
(* aborts the rollout at that step with successFlag 0 and no outputs, and  *)
(* successFlag 1 is returned only when every simulated state is finite.    *)
C5_NonFiniteAborts ==
    /\ \A k \in 1..sim_calls :
         (\E j \in 1..NbState : ~isfinite(init_TO_states[k + 1][j])) =>
            /\ qpc = "done"
            /\ sim_calls = k
            /\ seed_ret = [outputs |-> FALSE, flag |-> 0]
    /\ (qpc = "done" /\ NSTEPS_SH >= 1 /\ seed_ret = [outputs |-> TRUE, flag |-> 1]) =>
         \A k \in 1..NSTEPS_SH, j \in 1..NbState : isfinite(init_TO_states[k + 1][j])

(* The events of k complete iterations of the learn loop.                  *)
RECURSIVE ExpectedLog(_)
ExpectedLog(k) ==
    IF k = 0 THEN <<>>
    ELSE ExpectedLog(k - 1) \o <<"sample", "update">>
         \o (IF MC THEN <<>> ELSE <<"target">>)

(* C6: learn_and_update(c, replay, ep) runs exactly UPDATE_LOOPS[ep]       *)
(* iterations of sample, update, then (not in Monte-Carlo mode) target     *)
(* update, in this order, and returns c + UPDATE_LOOPS[ep]; with           *)
(* UPDATE_LOOPS[ep] = 0 it returns c with no sample or update.             *)
C6_LearnLoop ==
    /\ lpc = "loop" => call_log = ExpectedLog(loop_i)
    /\ lpc = "update" => call_log = ExpectedLog(loop_i) \o <<"sample">>
    /\ lpc = "target" => call_log = ExpectedLog(loop_i) \o <<"sample", "update">>
    /\ lpc # "raised"
    /\ (lpc = "idle" /\ n_calls > 0) =>
         /\ call_log = ExpectedLog(UPDATE_LOOPS[ep_arg])
         /\ learn_ret = <<c_in + UPDATE_LOOPS[ep_arg]>>

(* C7: update() leaves the target-critic parameters unchanged, and in      *)
(* Monte-Carlo mode update_target is never invoked, so the target-critic   *)
(* parameters keep the values setup_model gave them.                       *)
C7_TargetFrame ==
    /\ [](MC => (target_critic = target_at_setup /\ n_target_updates = 0))
    /\ [][lpc = "update" => target_critic' = target_critic]_vars

C7_Witness ==
    /\ MC
    /\ n_calls = 2
    /\ lpc = "idle"
    /\ update_step_counter >= 2
    /\ critic_model # target_critic
    /\ target_critic = target_at_setup

(* C8 as stated: with sample() returning (states, bootstrapStates,         *)
(* partialReturns, doneFlags, terminalFlags, importanceWeights,            *)
(* sampleIndices), every field reaches the collaborator argument of the    *)
(* same name.                                                              *)
C8_RoutingAsStated ==
    (lpc = "target") =>
      /\ critic_grad_args.state_batch.field = "states"
      /\ critic_grad_args.bootstrap_state_batch.field = "bootstrapStates"
      /\ critic_grad_args.partial_return_batch.field = "partialReturns"
      /\ critic_grad_args.done_batch.field = "doneFlags"
      /\ critic_grad_args.importance_weights.field = "importanceWeights"
      /\ actor_grad_args.state_batch.field = "states"
      /\ actor_grad_args.terminal_batch.field = "terminalFlags"

(* C8: in every iteration the collaborators receive elements of that       *)
(* iteration's sample by position: the critic gradient gets element 1 as   *)
(* state_batch, element 3 as bootstrap_state_batch, element 2 as           *)
(* partial_return_batch, element 4 as done_batch and element 6 as          *)
(* importance_weights; the actor gradient gets elements 1 and 5.  With the *)
(* tuple in the stated interface order the bootstrap states and the        *)
(* partial returns therefore reach each other's argument.                  *)
C8_RoutingByPosition ==
    (lpc = "target") =>
      /\ sampled = ReplaySample(n_samples)
      /\ critic_grad_args.state_batch = sampled[1]
      /\ critic_grad_args.partial_return_batch = sampled[2]
      /\ critic_grad_args.bootstrap_state_batch = sampled[3]
      /\ critic_grad_args.done_batch = sampled[4]
      /\ critic_grad_args.importance_weights = sampled[6]
      /\ actor_grad_args.state_batch = sampled[1]
      /\ actor_grad_args.terminal_batch = sampled[5]

C8_Witness ==
    /\ lpc = "target"
    /\ n_samples = 2
    /\ critic_grad_args.bootstrap_state_batch = [field |-> "partialReturns", k |-> 2]
    /\ critic_grad_args.partial_return_batch = [field |-> "bootstrapStates", k |-> 2]
    /\ actor_grad_args.terminal_batch = [field |-> "terminalFlags", k |-> 2]

(* C9: one update_target call replaces every target parameter by           *)
(* tau * source + (1 - tau) * target_old of the parameter at the same      *)
(* position and leaves the source unchanged; with tau = 1 the target       *)
(* equals the source, with tau = 0 it is unchanged.                        *)
C9_Polyak ==
    [][(n_target_updates' # n_target_updates) =>
         /\ Len(target_critic') = Len(target_critic)
         /\ \A j \in 1..Len(target_critic) :
              TauDen * target_critic'[j]
                = UPDATE_RATE * critic_model[j]
                  + (TauDen - UPDATE_RATE) * target_critic[j]
         /\ critic_model' = critic_model
         /\ (UPDATE_RATE = TauDen => target_critic' = critic_model)
         /\ (UPDATE_RATE = 0 => target_critic' = target_critic)]_vars

C9_Witness ==
    /\ n_target_updates >= 2
    /\ UPDATE_RATE > 0
    /\ UPDATE_RATE < TauDen
    /\ target_critic # critic_model
    /\ target_critic # target_at_setup
    /\ \E j \in 1..NParams : target_critic[j] % Scale # 0

(* Rewards recorded by RL_Solve are those the environment returned.        *)
RewardsFromEnv ==
    /\ \A k \in 1..Len(ctrl_used) :
         /\ env_calls[k].op = "step"
         /\ env_calls[k].at = k - 1
         /\ env_calls[k].ctrl = ctrl_used[k][2]
         /\ rwrd_arr[k] = env_calls[k].reward
    /\ (spc \in {"ret", "done"}) =>
         /\ Len(env_calls) = NSTEPS_SH + 1
         /\ env_calls[NSTEPS_SH + 1].op = "reward"
         /\ env_calls[NSTEPS_SH + 1].at = NSTEPS_SH
         /\ rwrd_arr[NSTEPS_SH + 1] = env_calls[NSTEPS_SH + 1].reward

(* C10 as stated: for every T >= 1, T = 1 included, transition i applies   *)
(* control index i for i < T-1 and the last transition applies control     *)
(* index T-2, every index used lying in 0..T-1; rewards are those of the   *)
(* same environment step and r[T] is the terminal reward of s[T].          *)
C10_ControlLagAsStated ==
    (NSTEPS_SH >= 1) =>
      /\ \A k \in 1..Len(ctrl_used) :
           /\ ctrl_used[k][2] = IF k - 1 < NSTEPS_SH - 1 THEN k - 1
                                ELSE NSTEPS_SH - 2
           /\ ctrl_used[k][2] \in 0..(NSTEPS_SH - 1)
      /\ RewardsFromEnv

(* C10: for T >= 2 transition i applies control index i for i < T-1 and    *)
(* the last transition applies control index T-2; for T = 1 the index      *)
(* expression of the only transition is -1, which selects the last control *)
(* row, index 0; every row applied lies in 0..T-1; rewards are those of    *)
(* the same environment step and r[T] is the terminal reward of s[T].      *)
C10_ControlLag ==
    (NSTEPS_SH >= 1) =>
      /\ \A k \in 1..Len(ctrl_used) :
           /\ ctrl_used[k][1] = IF k - 1 < NSTEPS_SH - 1 THEN k - 1
                                ELSE NSTEPS_SH - 2
           /\ ctrl_used[k][2] = IF k - 1 < NSTEPS_SH - 1 THEN k - 1
                                ELSE IF NSTEPS_SH >= 2 THEN NSTEPS_SH - 2
                                ELSE 0
           /\ ctrl_used[k][2] \in 0..(NSTEPS_SH - 1)
      /\ RewardsFromEnv

C10_Witness ==
    /\ spc = "done"
    /\ NSTEPS_SH = 1
    /\ ctrl_used = << <<0 - 1, 0>> >>
    /\ Len(env_calls) = 2
    /\ rwrd_arr[1] = env_calls[1].reward
    /\ rwrd_arr[2] = env_calls[2].reward

====
